---- MODULE Spec2Model ----
(***************************************************************************)
(* Model of csv-sanity: the Transformer set, Rule, Ruleset (a BinaryHeap   *)
(* of Rules) and the row pipeline Cli.run.                                 *)
(*                                                                         *)
(* A string is a sequence of characters; a character is a one-element      *)
(* string, or a named code point ("SOH" is U+0001, "SZ" is U+00DF).        *)
(***************************************************************************)
EXTENDS Integers, Sequences, FiniteSets, TLC

\* ------------------------------------------------------------------------
\* Bounds of the model
\* ------------------------------------------------------------------------
\* largest number of rules add_rule puts into one Ruleset
MaxRules == 3
\* largest number of fields in a row handed to apply_rules
MaxFields == 2
\* largest number of records the csv reader yields in one run of Cli.run
MaxRecords == 2
\* longest field value handed to the default Ruleset
MaxLen == 3

\* ------------------------------------------------------------------------
\* Characters
\* ------------------------------------------------------------------------
LowerLetters ==
    <<"a","b","c","d","e","f","g","h","i","j","k","l","m",
      "n","o","p","q","r","s","t","u","v","w","x","y","z">>

UpperLetters ==
    <<"A","B","C","D","E","F","G","H","I","J","K","L","M",
      "N","O","P","Q","R","S","T","U","V","W","X","Y","Z">>

SeqRange(s) == {s[i] : i \in 1..Len(s)}

AsciiLower == SeqRange(LowerLetters)

AsciiUpper == SeqRange(UpperLetters)

AsciiDigits == {"0","1","2","3","4","5","6","7","8","9"}

\* Unicode White_Space (what str::trim strips and the regex class \s matches)
WhiteSpace == {" ", "\t", "\n", "\r"}

IndexOf(s, c) == CHOOSE i \in 1..Len(s) : s[i] = c

\* char::to_uppercase: one character may become several (U+00DF -> "SS")
to_uppercase(c) ==
    IF c \in AsciiLower THEN <<UpperLetters[IndexOf(LowerLetters, c)]>>
    ELSE IF c = "SZ" THEN <<"S", "S">>
    ELSE <<c>>

\* char::to_lowercase
to_lowercase(c) ==
    IF c \in AsciiUpper THEN <<LowerLetters[IndexOf(UpperLetters, c)]>>
    ELSE <<c>>

RECURSIVE Flatten(_)
Flatten(ss) == IF ss = <<>> THEN <<>> ELSE Head(ss) \o Flatten(Tail(ss))

\* str::to_lowercase
str_to_lowercase(s) == Flatten([i \in 1..Len(s) |-> to_lowercase(s[i])])

\* str::trim: strips leading and trailing White_Space
RECURSIVE trim_start(_)
trim_start(s) ==
    IF s # <<>> /\ Head(s) \in WhiteSpace THEN trim_start(Tail(s)) ELSE s

RECURSIVE trim_end(_)
trim_end(s) ==
    IF s # <<>> /\ s[Len(s)] \in WhiteSpace
    THEN trim_end(SubSeq(s, 1, Len(s) - 1))
    ELSE s

trim(s) == trim_end(trim_start(s))

\* usize::to_string: the decimal digits, most significant first
DigitChar(d) == <<"0","1","2","3","4","5","6","7","8","9">>[d + 1]

RECURSIVE usize_to_string(_)
usize_to_string(n) ==
    IF n < 10 THEN <<DigitChar(n)>>
    ELSE usize_to_string(n \div 10) \o <<DigitChar(n % 10)>>

\* ------------------------------------------------------------------------
\* Regular expressions (the regex crate): a pattern is a tree, Ends gives
\* the positions where a match of the pattern starting at position i ends.
\* ------------------------------------------------------------------------
Class(S) == [op |-> "class", set |-> S, parts |-> <<>>]

\* a negated class such as \D
NotClass(S) == [op |-> "nclass", set |-> S, parts |-> <<>>]

StartText == [op |-> "start", set |-> {}, parts |-> <<>>]

EndText == [op |-> "end", set |-> {}, parts |-> <<>>]

Cat(ps) == [op |-> "cat", set |-> {}, parts |-> ps]

Alt(ps) == [op |-> "alt", set |-> {}, parts |-> ps]

Star(p) == [op |-> "star", set |-> {}, parts |-> <<p>>]

Opt(p) == [op |-> "opt", set |-> {}, parts |-> <<p>>]

Plus(p) == Cat(<<p, Star(p)>>)

Repeat(p, n) == Cat([i \in 1..n |-> p])

RECURSIVE Ends(_, _, _)
RECURSIVE CatEnds(_, _, _, _)
RECURSIVE StarEnds(_, _, _, _)
Ends(re, s, i) ==
    CASE re.op = "class" ->
            IF i < Len(s) /\ s[i + 1] \in re.set THEN {i + 1} ELSE {}
      [] re.op = "nclass" ->
            IF i < Len(s) /\ s[i + 1] \notin re.set THEN {i + 1} ELSE {}
      [] re.op = "start" -> IF i = 0 THEN {i} ELSE {}
      [] re.op = "end" -> IF i = Len(s) THEN {i} ELSE {}
      [] re.op = "cat" -> CatEnds(re.parts, 1, s, {i})
      [] re.op = "alt" ->
            UNION {Ends(re.parts[k], s, i) : k \in 1..Len(re.parts)}
      [] re.op = "star" -> StarEnds(re.parts[1], s, {i}, {i})
      [] re.op = "opt" -> {i} \cup Ends(re.parts[1], s, i)

CatEnds(ps, k, s, from) ==
    IF k > Len(ps) \/ from = {} THEN from
    ELSE CatEnds(ps, k + 1, s, UNION {Ends(ps[k], s, i) : i \in from})

StarEnds(p, s, frontier, seen) ==
    LET next == (UNION {Ends(p, s, i) : i \in frontier}) \ seen
    IN  IF next = {} THEN seen ELSE StarEnds(p, s, next, seen \cup next)

\* Regex::is_match: the pattern matches somewhere in the text
is_match(re, s) == \E i \in 0..Len(s) : Ends(re, s, i) # {}

\* ------------------------------------------------------------------------
\* TransformResult = Result<Option<String>, TransformError>
\* ------------------------------------------------------------------------
Some(v) == [tag |-> "Some", v |-> v]

None == [tag |-> "None"]

TransformError(record_n, field_name, field_value, reason) ==
    [record_n |-> record_n, field_name |-> field_name,
     field_value |-> field_value, reason |-> reason]

\* TransformResult::present: Ok(Some(value))
present(value) == [tag |-> "Ok", opt |-> Some(value)]

\* TransformResult::excluded: Ok(None)
excluded == [tag |-> "Ok", opt |-> None]

\* TransformResult::error: Err(TransformError {..})
error(field_value, field_name, record_n, reason) ==
    [tag |-> "Err",
     err |-> TransformError(record_n, field_name, field_value, <<reason>>)]

\* ------------------------------------------------------------------------
\* Transformers
\* ------------------------------------------------------------------------
\* Unicode decimal digits (\d of the regex crate): "AD3" is U+0663
UnicodeDigits == AsciiDigits \cup {"AD3"}

AsciiAlnum == AsciiLower \cup AsciiUpper \cup AsciiDigits

\* TrimTransformer::transform
TrimTransformer_transform(field_value, field_name, record_n) ==
    present(trim(field_value))

\* r"\A(?:[:cntrl:]|\s)*\z": outside a bracket expression [:cntrl:] is the
\* class of the six characters : c n t r l
with_blank_matcher ==
    Cat(<<StartText,
          Star(Alt(<<Class({":", "c", "n", "t", "r", "l"}), Class(WhiteSpace)>>)),
          EndText>>)

\* NoneTransformer::transform
NoneTransformer_transform(regex, field_value, field_name, record_n) ==
    IF is_match(regex, field_value) THEN excluded ELSE present(field_value)

\* the class [a-z0-9 and the symbols of the local part] under (?i);
\* "GRAVE" is U+0060
EmailLocalChar ==
    Class(AsciiAlnum \cup {"!", "#", "$", "%", "&", "'", "*", "+", "/", "=",
                           "?", "^", "_", "GRAVE", "{", "|", "}", "~", "-"})

\* [a-z0-9](?:[a-z0-9-]*[a-z0-9])? under (?i)
EmailLabel ==
    Cat(<<Class(AsciiAlnum),
          Opt(Cat(<<Star(Class(AsciiAlnum \cup {"-"})), Class(AsciiAlnum)>>))>>)

EMAIL_REGEX ==
    Cat(<<StartText,
          Plus(EmailLocalChar),
          Star(Cat(<<Class({"."}), Plus(EmailLocalChar)>>)),
          Class({"@"}),
          Plus(Cat(<<EmailLabel, Class({"."})>>)),
          EmailLabel,
          EndText>>)

\* EmailTransformer::transform
EmailTransformer_transform(field_value, field_name, record_n) ==
    IF is_match(EMAIL_REGEX, field_value)
    THEN present(str_to_lowercase(field_value))
    ELSE error(field_value, field_name, record_n, "invalid email address")

\* r"\A(:?0|[1-9]\d*)\z": the group opens with an optional colon
INTEGER_REGEX ==
    Cat(<<StartText,
          Alt(<<Cat(<<Opt(Class({":"})), Class({"0"})>>),
                Cat(<<Class(AsciiDigits \ {"0"}), Star(Class(UnicodeDigits))>>)>>),
          EndText>>)

\* NumberTransformer::transform
NumberTransformer_transform(field_value, field_name, record_n) ==
    IF is_match(INTEGER_REGEX, field_value)
    THEN present(field_value)
    ELSE error(field_value, field_name, record_n, "not a valid number")

\* r"\A(\d{5})\D*(?:(\d{4}))?\z"
ZIP_REGEX ==
    Cat(<<StartText,
          Repeat(Class(UnicodeDigits), 5),
          Star(NotClass(UnicodeDigits)),
          Opt(Repeat(Class(UnicodeDigits), 4)),
          EndText>>)

\* the matches of ZIP_REGEX in which the second group takes part
ZIP_REGEX_plus_four ==
    Cat(<<StartText,
          Repeat(Class(UnicodeDigits), 5),
          Star(NotClass(UnicodeDigits)),
          Repeat(Class(UnicodeDigits), 4),
          EndText>>)

\* ZIP_REGEX.captures: group 1 is the five digits after \A; group 2 takes
\* part when four digits end the text (\D* cannot take a digit, so a text
\* has at most one way to match)
ZIP_REGEX_captures(field_value) ==
    IF ~is_match(ZIP_REGEX, field_value) THEN None
    ELSE Some([base_code |-> SubSeq(field_value, 1, 5),
               plus_four_code |->
                   IF is_match(ZIP_REGEX_plus_four, field_value)
                   THEN Some(SubSeq(field_value, Len(field_value) - 3,
                                    Len(field_value)))
                   ELSE None])

\* the zipcode formatted from the captures
zipcode_of(captures) ==
    IF captures.plus_four_code # None
    THEN captures.base_code \o <<"-">> \o captures.plus_four_code.v
    ELSE captures.base_code

\* ZipcodeTransformer::transform
ZipcodeTransformer_transform(field_value, field_name, record_n) ==
    IF ZIP_REGEX_captures(field_value) # None
    THEN present(zipcode_of(ZIP_REGEX_captures(field_value).v))
    ELSE error(field_value, field_name, record_n, "not a valid zipcode")

\* ChoiceTransformer::transform
ChoiceTransformer_transform(choices, field_value, field_name, record_n) ==
    IF field_value \in SeqRange(choices)
    THEN present(field_value)
    ELSE error(field_value, field_name, record_n, "not in valid choices")

\* ------------------------------------------------------------------------
\* Capitalize: UnicodeSegmentation::unicode_words (UAX 29 word boundaries)
\* ------------------------------------------------------------------------
ALetter == AsciiLower \cup AsciiUpper \cup {"SZ"}

Numeric == UnicodeDigits

MidLetterLike == {":", ".", "'"}

MidNumLike == {",", ".", "'"}

ExtendNumLet == {"_"}

\* char::is_alphanumeric
is_alphanumeric(c) == c \in ALetter \cup Numeric

\* no word boundary between s[i] and s[i + 1] (rules WB5 to WB13b)
NoBreak(s, i) ==
    LET a == s[i]
        b == s[i + 1]
        prevIn(S) == i > 1 /\ s[i - 1] \in S
        nextIn(S) == i + 2 <= Len(s) /\ s[i + 2] \in S
    IN  \/ a \in ALetter /\ b \in ALetter
        \/ a \in ALetter /\ b \in MidLetterLike /\ nextIn(ALetter)
        \/ a \in MidLetterLike /\ b \in ALetter /\ prevIn(ALetter)
        \/ a \in Numeric /\ b \in Numeric
        \/ a \in ALetter /\ b \in Numeric
        \/ a \in Numeric /\ b \in ALetter
        \/ a \in MidNumLike /\ b \in Numeric /\ prevIn(Numeric)
        \/ a \in Numeric /\ b \in MidNumLike /\ nextIn(Numeric)
        \/ a \in ALetter \cup Numeric \cup ExtendNumLet /\ b \in ExtendNumLet
        \/ a \in ExtendNumLet /\ b \in ALetter \cup Numeric

\* the segments between word boundaries, from position start on
RECURSIVE split_word_bounds(_, _, _)
split_word_bounds(s, start, i) ==
    IF start > Len(s) THEN <<>>
    ELSE IF i < Len(s) /\ NoBreak(s, i) THEN split_word_bounds(s, start, i + 1)
    ELSE <<SubSeq(s, start, i)>> \o split_word_bounds(s, i + 1, i + 1)

\* unicode_words: the segments that hold an alphanumeric character
unicode_words(s) ==
    SelectSeq(split_word_bounds(s, 1, 1),
              LAMBDA w : \E i \in 1..Len(w) : is_alphanumeric(w[i]))

\* capitalize_word
capitalize_word(word) ==
    Flatten([i \in 1..Len(word) |->
                IF i = 1 THEN to_uppercase(word[i]) ELSE to_lowercase(word[i])])

\* [String]::join
RECURSIVE join(_, _)
join(ws, sep) ==
    IF ws = <<>> THEN <<>>
    ELSE IF Len(ws) = 1 THEN ws[1]
    ELSE ws[1] \o sep \o join(Tail(ws), sep)

\* capitalize
capitalize(string) ==
    LET words == unicode_words(string)
    IN  join([i \in 1..Len(words) |-> capitalize_word(words[i])], <<" ">>)

\* CapitalizeTransformer::transform
CapitalizeTransformer_transform(field_value, field_name, record_n) ==
    present(capitalize(field_value))

\* ------------------------------------------------------------------------
\* enum Transformers
\* ------------------------------------------------------------------------
NoRegex == Cat(<<>>)

Trim == [kind |-> "Trim", regex |-> NoRegex, choices |-> <<>>]

NoneT(regex) == [kind |-> "None", regex |-> regex, choices |-> <<>>]

Capitalize == [kind |-> "Capitalize", regex |-> NoRegex, choices |-> <<>>]

Email == [kind |-> "Email", regex |-> NoRegex, choices |-> <<>>]

Number == [kind |-> "Number", regex |-> NoRegex, choices |-> <<>>]

Choice(choices) == [kind |-> "Choice", regex |-> NoRegex, choices |-> choices]

Zipcode == [kind |-> "Zipcode", regex |-> NoRegex, choices |-> <<>>]

\* Transformers::transform
transform(t, field_value, field_name, record_n) ==
    CASE t.kind = "Trim" ->
            TrimTransformer_transform(field_value, field_name, record_n)
      [] t.kind = "None" ->
            NoneTransformer_transform(t.regex, field_value, field_name, record_n)
      [] t.kind = "Capitalize" ->
            CapitalizeTransformer_transform(field_value, field_name, record_n)
      [] t.kind = "Email" ->
            EmailTransformer_transform(field_value, field_name, record_n)
      [] t.kind = "Number" ->
            NumberTransformer_transform(field_value, field_name, record_n)
      [] t.kind = "Choice" ->
            ChoiceTransformer_transform(t.choices, field_value, field_name, record_n)
      [] t.kind = "Zipcode" ->
            ZipcodeTransformer_transform(field_value, field_name, record_n)

\* ------------------------------------------------------------------------
\* Rule
\* ------------------------------------------------------------------------
Global == [tag |-> "Global", field_names |-> {}]

Fields(field_names) == [tag |-> "Fields", field_names |-> field_names]

\* Rule::for_fields_with_priority
for_fields_with_priority(field_names, transformer, priority) ==
    [applicability |-> Fields(field_names), transformer |-> transformer,
     priority |-> priority]

\* Rule::for_fields: the default priority is 0
for_fields(field_names, transformer) ==
    for_fields_with_priority(field_names, transformer, 0)

\* Rule::global_with_priority
global_with_priority(transformer, priority) ==
    [applicability |-> Global, transformer |-> transformer, priority |-> priority]

\* Rule::apply with the applicability test left out
apply_to_any_field(self, field_value, field_name, record_n) ==
    transform(self.transformer, field_value, field_name, record_n)

\* Rule::apply
apply(self, field_value, field_name, record_n) ==
    IF \/ self.applicability.tag = "Global"
       \/ /\ self.applicability.tag = "Fields"
          /\ field_name \in self.applicability.field_names
    THEN transform(self.transformer, field_value, field_name, record_n)
    ELSE [tag |-> "Ok", opt |-> Some(field_value)]

\* isize::cmp
isize_cmp(a, b) == IF a < b THEN "Less" ELSE IF a = b THEN "Equal" ELSE "Greater"

\* impl Ord for Rule: other.priority.cmp(&self.priority)
cmp(self, other) == isize_cmp(other.priority, self.priority)

\* ------------------------------------------------------------------------
\* Ruleset: rules is a BinaryHeap<Rule>, held as the heap's vector
\* ------------------------------------------------------------------------
Swap(data, i, j) == [data EXCEPT ![i] = data[j], ![j] = data[i]]

\* BinaryHeap::sift_up: pos and its parent pos \div 2 are positions 1..Len
RECURSIVE sift_up(_, _)
sift_up(data, pos) ==
    IF pos > 1 /\ cmp(data[pos], data[pos \div 2]) = "Greater"
    THEN sift_up(Swap(data, pos, pos \div 2), pos \div 2)
    ELSE data

\* BinaryHeap::push
push(data, item) == sift_up(Append(data, item), Len(data) + 1)

\* Ruleset::add_rule
add_rule(self, rule) == push(self, rule)

\* Ruleset::without_default_rules
without_default_rules == <<>>

\* Ruleset::new
new ==
    add_rule(add_rule(without_default_rules,
                      global_with_priority(NoneT(with_blank_matcher), -10)),
             global_with_priority(Trim, -10))

\* BinaryHeap::iter: the values of the underlying vector, in its order
iter(self) == self

ValidationError(reason) == [reason |-> reason]

\* validate_rules returning at the first rule with unknown field names
RECURSIVE validate_loop_fail_fast(_, _, _)
validate_loop_fail_fast(rs, k, hdrs) ==
    IF k > Len(rs) THEN <<>>
    ELSE LET diff == rs[k].applicability.field_names \ SeqRange(hdrs)
         IN  IF rs[k].applicability.tag = "Fields" /\ diff # {}
             THEN <<[reason |-> diff]>>
             ELSE validate_loop_fail_fast(rs, k + 1, hdrs)

\* Ruleset::validate_rules: the errors vector of the loop over the rules
RECURSIVE validate_loop(_, _, _)
validate_loop(rs, k, hdrs) ==
    IF k > Len(rs) THEN <<>>
    ELSE LET rule == rs[k]
             header_set == SeqRange(hdrs)
             field_set == rule.applicability.field_names
             diff == field_set \ header_set
             errors == IF rule.applicability.tag = "Fields" /\ Cardinality(diff) > 0
                       THEN <<ValidationError(diff)>>
                       ELSE <<>>
         IN  errors \o validate_loop(rs, k + 1, hdrs)

\* Ruleset::validate_rules
validate_rules(self, hdrs) ==
    LET errors == validate_loop(iter(self), 1, hdrs)
    IN  IF errors = <<>> THEN [tag |-> "Ok"] ELSE [tag |-> "Err", errors |-> errors]

\* the element put in front of the vector whatever the index
VecInsert_at_front(vec, index, element) == <<element>> \o vec

\* Vec::insert(index, element), index counted from 0
VecInsert(vec, index, element) ==
    SubSeq(vec, 1, index) \o <<element>> \o SubSeq(vec, index + 1, Len(vec))

\* a failed field kept as an empty value instead of omitted
new_value_empty_on_error(transform_result) ==
    IF transform_result.tag = "Ok" THEN transform_result.opt ELSE Some(<<>>)

\* Ruleset::apply_rules: the value a field carries on after one rule
new_value_of(transform_result) ==
    IF transform_result.tag = "Ok" THEN transform_result.opt ELSE None

\* a failed field carried on to the next rule with the value it had
after_rule_keeps_value(st, k, rule, field_n, fv, transform_result) ==
    [transformed_field_value |->
         IF transform_result.tag = "Ok" THEN transform_result.opt ELSE Some(fv),
     errors |-> IF transform_result.tag = "Ok"
                THEN st.errors
                ELSE Append(st.errors, transform_result.err),
     calls |-> Append(st.calls,
                      [field_n |-> field_n, rule_n |-> k, rule |-> rule,
                       field_value |-> fv, result |-> transform_result])]

\* Ruleset::apply_rules, one turn of the loop over the rules: st holds
\* transformed_field_value, the errors vector and the log of the calls of
\* Rule::apply made so far; transform_result is what rule number k returned
\* for the value fv
after_rule(st, k, rule, field_n, fv, transform_result) ==
    [transformed_field_value |-> new_value_of(transform_result),
     errors |-> IF transform_result.tag = "Ok"
                THEN st.errors
                ELSE Append(st.errors, transform_result.err),
     calls |-> Append(st.calls,
                      [field_n |-> field_n, rule_n |-> k, rule |-> rule,
                       field_value |-> fv, result |-> transform_result])]

\* Ruleset::apply_rules, the loop over the rules for one field
RECURSIVE rule_loop(_, _, _, _, _, _)
rule_loop(rs, k, field_name, record_n, field_n, st) ==
    IF k > Len(rs) THEN st
    ELSE IF st.transformed_field_value = None THEN st
    ELSE rule_loop(rs, k + 1, field_name, record_n, field_n,
                   after_rule(st, k, rs[k], field_n, st.transformed_field_value.v,
                              apply(rs[k], st.transformed_field_value.v,
                                    field_name, record_n)))

\* the reason of the error for a field beyond the headers
extra_field_reason(expected_n_fields, field_n) ==
    <<"found ">> \o usize_to_string(expected_n_fields)
        \o <<" header fields but record had extra field at position ">>
        \o usize_to_string(field_n)

\* the error for a field beyond the headers, positions counted from 1
extra_field_error_one_based(expected_n_fields, field_n, field_value, record_n) ==
    TransformError(record_n, usize_to_string(field_n + 1), field_value,
                   extra_field_reason(expected_n_fields, field_n + 1))

\* Ruleset::apply_rules: the error for a field beyond the headers
extra_field_error(expected_n_fields, field_n, field_value, record_n) ==
    TransformError(record_n, usize_to_string(field_n), field_value,
                   extra_field_reason(expected_n_fields, field_n))

\* the loop over the fields given up once an error has been recorded
fields_done_on_error(fields, field_n, st) ==
    field_n >= Len(fields) \/ st.panicked \/ st.errors # <<>>

\* Ruleset::apply_rules: the loop over the fields ends with the last field
\* (or with the panic of Vec::insert)
fields_done(fields, field_n, st) ==
    field_n >= Len(fields) \/ st.panicked

\* Ruleset::apply_rules, a field within the headers: r is what the loop over
\* the rules left; transformed_fields.insert(field_n, ..) panics when field_n
\* is beyond the length of the vector
after_field(st, field_n, r) ==
    IF field_n > Len(st.transformed_fields)
    THEN [st EXCEPT !.panicked = TRUE]
    ELSE [transformed_fields |->
              VecInsert(st.transformed_fields, field_n, r.transformed_field_value),
          errors |-> r.errors, calls |-> r.calls, panicked |-> FALSE]

\* Ruleset::apply_rules, the loop over the fields (field_n counts from 0)
RECURSIVE field_loop(_, _, _, _, _, _)
field_loop(self, hdrs, fields, record_n, field_n, st) ==
    IF fields_done(fields, field_n, st) THEN st
    ELSE IF field_n < Len(hdrs)
    THEN field_loop(self, hdrs, fields, record_n, field_n + 1,
           after_field(st, field_n,
               rule_loop(iter(self), 1, hdrs[field_n + 1], record_n, field_n,
                         [transformed_field_value |-> Some(fields[field_n + 1]),
                          errors |-> st.errors, calls |-> st.calls])))
    ELSE field_loop(self, hdrs, fields, record_n, field_n + 1,
           [st EXCEPT !.errors =
               Append(st.errors,
                      extra_field_error(Len(hdrs), field_n, fields[field_n + 1],
                                        record_n))])

\* Ruleset::apply_rules, with the log of its calls of Rule::apply
apply_rules_run(self, hdrs, fields, record_n) ==
    field_loop(self, hdrs, fields, record_n, 0,
               [transformed_fields |-> <<>>, errors |-> <<>>, calls |-> <<>>,
                panicked |-> FALSE])

TransformedRecord(field_values, errors) ==
    [field_values |-> field_values, errors |-> errors]

\* what apply_rules returns at the end of a run
Returned(run) ==
    IF run.panicked
    THEN [tag |-> "panic"]
    ELSE TransformedRecord(run.transformed_fields, run.errors)

\* Ruleset::apply_rules
apply_rules(self, hdrs, fields, record_n) ==
    Returned(apply_rules_run(self, hdrs, fields, record_n))

\* ------------------------------------------------------------------------
\* State
\* ------------------------------------------------------------------------
VARIABLES
    rules,          \* Ruleset.rules: the vector of the BinaryHeap<Rule>
    call,           \* the last operation called and its arguments
    ret,            \* what that operation returned
    calls,          \* the calls of Rule::apply that operation made, in order
    pc,             \* Cli.run: where the run stands
    headers,        \* Cli.run: the headers read from the input
    reader,         \* Cli.run: the records the csv reader has still to yield
    record_n,       \* Cli.run: the enumerate() index of the next record
    output_writer,  \* Cli.run: the rows written to the primary output
    error_writer,   \* Cli.run: the rows written to the error output
    validation      \* main, Cli.run: what validate_rules returned for the
                    \* headers of the input; NoRet while it was not called

vars == <<rules, call, ret, calls, pc, headers, reader, record_n,
          output_writer, error_writer, validation>>

cliVars ==
    <<pc, headers, reader, record_n, output_writer, error_writer, validation>>

\* ------------------------------------------------------------------------
\* Inputs of the engine specification
\* ------------------------------------------------------------------------
Id == <<"I", "d">>

Name == <<"N", "a", "m", "e">>

Zip == <<"Z", "i", "p">>

HeaderChoices == {<<Id>>, <<Id, Name>>}

FieldNames == {Id, Name, Zip}

\* a blank value, a number followed by a space, a word
FieldValues == {<<" ">>, <<"7", " ">>, <<"x">>}

Rows == UNION {[1..n -> FieldValues] : n \in 0..MaxFields}

RecordNumbers == {2, 3}

RuleChoices ==
    {global_with_priority(NoneT(with_blank_matcher), 10),
     global_with_priority(Number, -10),
     global_with_priority(Trim, 5),
     global_with_priority(Trim, -20),
     for_fields({Id}, Number),
     for_fields({Name, Zip}, Capitalize),
     for_fields_with_priority({Zip}, Email, 5)}

NoCall == [op |-> "none"]

NoRet == [tag |-> "none"]

CliIdle ==
    /\ pc = "idle"
    /\ headers = <<>>
    /\ reader = <<>>
    /\ record_n = 0
    /\ output_writer = <<>>
    /\ error_writer = <<>>
    /\ validation = NoRet

\* ------------------------------------------------------------------------
\* The engine: a Ruleset is constructed, rules are added, rows are applied
\* ------------------------------------------------------------------------
\* no call is in progress and no returned value is held
Ready == call = NoCall

Init ==
    /\ rules \in {without_default_rules, new}
    /\ call = NoCall
    /\ ret = NoRet
    /\ calls = <<>>
    /\ CliIdle

AddRule ==
    \E rule \in RuleChoices :
        /\ Ready
        /\ Len(rules) < MaxRules
        /\ rules' = add_rule(rules, rule)
        /\ UNCHANGED <<call, ret, calls, cliVars>>

ValidateRules ==
    \E hdrs \in HeaderChoices :
        /\ Ready
        /\ call' = [op |-> "validate_rules", headers |-> hdrs]
        /\ ret' = validate_rules(rules, hdrs)
        /\ calls' = <<>>
        /\ UNCHANGED <<rules, cliVars>>

\* a call of apply_rules returns: run is what the loops computed
ApplyRulesReturns(hdrs, fields, n, run) ==
    /\ call' = [op |-> "apply_rules", headers |-> hdrs, fields |-> fields,
                record_n |-> n]
    /\ ret' = Returned(run)
    /\ calls' = run.calls

\* apply_rules visiting the rules by popping them off the heap
ApplyRules_draining ==
    \E hdrs \in HeaderChoices, fields \in Rows, n \in RecordNumbers :
        /\ Ready
        /\ ApplyRulesReturns(hdrs, fields, n,
                             apply_rules_run(rules, hdrs, fields, n))
        /\ rules' = <<>>
        /\ UNCHANGED cliVars

ApplyRules ==
    \E hdrs \in HeaderChoices, fields \in Rows, n \in RecordNumbers :
        /\ Ready
        /\ ApplyRulesReturns(hdrs, fields, n,
                             apply_rules_run(rules, hdrs, fields, n))
        /\ UNCHANGED <<rules, cliVars>>

RuleApply ==
    \E rule \in RuleChoices, v \in FieldValues, name \in FieldNames,
       n \in RecordNumbers :
        /\ Ready
        /\ call' = [op |-> "apply", rule |-> rule, field_value |-> v,
                    field_name |-> name, record_n |-> n]
        /\ ret' = apply(rule, v, name, n)
        /\ calls' = <<>>
        /\ UNCHANGED <<rules, cliVars>>

\* the caller drops the value the last call returned
Discard ==
    /\ ~Ready
    /\ call' = NoCall
    /\ ret' = NoRet
    /\ calls' = <<>>
    /\ UNCHANGED <<rules, cliVars>>

Next == AddRule \/ ValidateRules \/ ApplyRules \/ RuleApply \/ Discard

Spec == Init /\ [][Next]_vars

\* ------------------------------------------------------------------------
\* The default Ruleset: Ruleset::new(), then the rules of the example in the
\* documentation of Ruleset are added and rows are applied
\* ------------------------------------------------------------------------
FirstName == <<"F", "i", "r", "s", "t", " ", "N", "a", "m", "e">>

LastName == <<"L", "a", "s", "t", " ", "N", "a", "m", "e">>

EmailName == <<"E", "m", "a", "i", "l">>

DocHeaders == <<Id, FirstName, LastName, EmailName>>

DocRules ==
    {for_fields({FirstName, LastName}, Capitalize), for_fields({EmailName}, Email)}

\* the characters of the values handed to the default Ruleset: white space,
\* a control character (U+0001), a letter of the class of the blank matcher
\* and another letter
TextChars == {" ", "\t", "SOH", "n", "a"}

TextValues == UNION {[1..n -> TextChars] : n \in 0..MaxLen}

\* white space that may surround a valid value
PadsBefore == {<<>>, <<"\t", " ">>}

PadsAfter == {<<>>, <<" ">>}

Padded(cores) == {a \o c \o b : a \in PadsBefore, c \in cores, b \in PadsAfter}

DocIds == {<<"1">>}

DocFirstNames == {<<"J", "O", "H", "N">>, <<"c", "l">>}

DocLastNames == {<<"S", "N", "O", "W">>}

DocEmails ==
    {<<"J", "S", "N", "O", "W", "@", "E", "X", "A", "M", "P", "L", "E", ".", "C", "O", "M">>,
     <<"n", "@", "c", ".", "l">>}

DocRows ==
    {<<i, f, l, e>> : i \in Padded(DocIds), f \in Padded(DocFirstNames),
                      l \in Padded(DocLastNames), e \in Padded(DocEmails)}

InitNew ==
    /\ rules = new
    /\ call = NoCall
    /\ ret = NoRet
    /\ calls = <<>>
    /\ CliIdle

\* apply_rules of the Ruleset as Ruleset::new() built it, on a one-field row
ApplyDefault ==
    \E v \in TextValues, n \in RecordNumbers :
        /\ Ready
        /\ rules = new
        /\ ApplyRulesReturns(<<Id>>, <<v>>, n,
                             apply_rules_run(rules, <<Id>>, <<v>>, n))
        /\ UNCHANGED <<rules, cliVars>>

\* add_rule of a rule of the example that has not been added yet
AddDocRule ==
    \E rule \in DocRules :
        /\ Ready
        /\ \A k \in 1..Len(rules) : rules[k] # rule
        /\ rules' = add_rule(rules, rule)
        /\ UNCHANGED <<call, ret, calls, cliVars>>

HasDocRules == \A rule \in DocRules : \E k \in 1..Len(rules) : rules[k] = rule

\* apply_rules of the Ruleset of the example on a row of padded valid values
ApplyDoc ==
    \E fields \in DocRows :
        /\ Ready
        /\ HasDocRules
        /\ ApplyRulesReturns(DocHeaders, fields, 1,
                             apply_rules_run(rules, DocHeaders, fields, 1))
        /\ UNCHANGED <<rules, cliVars>>

NextNew == ApplyDefault \/ AddDocRule \/ ApplyDoc \/ Discard

SpecNew == InitNew /\ [][NextNew]_vars

\* ------------------------------------------------------------------------
\* The row pipeline: main builds a Cli around a deserialized Ruleset and
\* calls Cli.run, which reads the records of the input one by one
\* ------------------------------------------------------------------------
\* the Rulesets main may deserialize: the default one, one with a rule for
\* a header, one with a rule for a field that is no header of any input
CliRulesets ==
    {new,
     add_rule(new, for_fields({Id}, Number)),
     add_rule(add_rule(without_default_rules, for_fields({Zip}, Email)),
              global_with_priority(Trim, 5))}

\* the rows of the inputs: a single word, a row that is wide for every
\* choice of headers, a blank field followed by a word
CliRows == {<<<<"x">>>>, <<<<"x">>, <<" ">>, <<"x">>>>, <<<<" ">>, <<"x">>>>}

\* what reader.records() yields for one record: the fields, or a csv error
CliRecords ==
    {[tag |-> "Ok", rec |-> row] : row \in CliRows}
        \cup {[tag |-> "Err", e |-> <<"csv parse error">>]}

CliInputs == UNION {[1..n -> CliRecords] : n \in 0..MaxRecords}

RecordNumberHeader ==
    <<"R", "e", "c", "o", "r", "d", " ", "N", "u", "m", "b", "e", "r">>

\* the header row of the error output
error_headers == <<<<"Record Number">>, <<"Field Name">>, <<"Field Value">>, <<"Reason">>>>

\* csv::Writer::encode of an Option<String>: None is written as an empty field
encode_option(o) == IF o = None THEN <<>> ELSE o.v

\* csv::Writer::encode of a TransformError: its four fields in order
encode_error(err) ==
    <<usize_to_string(err.record_n), err.field_name, err.field_value, err.reason>>

\* a row as written: of is the number, counted from 1, of the input record
\* it was written for (0 for a header row)
Written(of, row) == [of |-> of, row |-> row]

\* the line number with the record counted from 1 and no header counted
original_line_n_no_header(n) == n + 1

\* Cli.run: original_line_n = record_n + 2
original_line_n(n) == n + 2

InitCli ==
    /\ rules \in CliRulesets
    /\ call = NoCall
    /\ ret = NoRet
    /\ calls = <<>>
    /\ CliIdle

\* Cli.run up to the loop: the reader is opened, the headers are read and
\* the header rows of both outputs are written
CliOpen ==
    \E hdrs \in HeaderChoices, input \in CliInputs :
        /\ pc = "idle"
        /\ pc' = "records"
        /\ headers' = hdrs
        /\ reader' = input
        /\ record_n' = 0
        /\ output_writer' = <<Written(0, <<RecordNumberHeader>> \o hdrs)>>
        /\ error_writer' = <<Written(0, error_headers)>>
        /\ UNCHANGED <<rules, call, ret, calls, validation>>

\* a record the reader failed to parse also given a row of the output
CliRecordErr_writes_row ==
    /\ pc = "records"
    /\ record_n < Len(reader)
    /\ reader[record_n + 1].tag = "Err"
    /\ error_writer' =
           Append(error_writer,
                  Written(record_n + 1,
                          encode_error(TransformError(original_line_n(record_n),
                                                      <<>>, <<>>,
                                                      reader[record_n + 1].e))))
    /\ output_writer' =
           Append(output_writer,
                  Written(record_n + 1,
                          <<usize_to_string(original_line_n(record_n))>>))
    /\ record_n' = record_n + 1
    /\ UNCHANGED <<rules, call, ret, calls, pc, headers, reader, validation>>

\* Cli.run, one turn of the loop for a record the reader failed to parse
CliRecordErr ==
    /\ pc = "records"
    /\ record_n < Len(reader)
    /\ reader[record_n + 1].tag = "Err"
    /\ error_writer' =
           Append(error_writer,
                  Written(record_n + 1,
                          encode_error(TransformError(original_line_n(record_n),
                                                      <<>>, <<>>,
                                                      reader[record_n + 1].e))))
    /\ record_n' = record_n + 1
    /\ UNCHANGED <<rules, call, ret, calls, pc, headers, reader, output_writer,
                   validation>>

\* the error rows of a record written last error first
CliWrites_errors_reversed(line_n, transformed_record) ==
    /\ output_writer' =
           Append(output_writer,
                  Written(record_n + 1,
                          <<usize_to_string(line_n)>>
                              \o [i \in 1..Len(transformed_record.field_values) |->
                                     encode_option(transformed_record.field_values[i])]))
    /\ error_writer' =
           error_writer \o
               [i \in 1..Len(transformed_record.errors) |->
                   Written(record_n + 1,
                           encode_error(transformed_record.errors[
                               Len(transformed_record.errors) + 1 - i]))]

\* Cli.run, the rest of a turn of the loop once apply_rules has returned
\* transformed_record: the output row and the error rows are written
CliWrites(line_n, transformed_record) ==
    /\ output_writer' =
           Append(output_writer,
                  Written(record_n + 1,
                          <<usize_to_string(line_n)>>
                              \o [i \in 1..Len(transformed_record.field_values) |->
                                     encode_option(transformed_record.field_values[i])]))
    /\ error_writer' =
           error_writer \o
               [i \in 1..Len(transformed_record.errors) |->
                   Written(record_n + 1, encode_error(transformed_record.errors[i]))]

\* Cli.run, a turn of the loop for a parsed record: run is what the loops of
\* apply_rules computed (a panic ends the process)
CliApplies(rec, line_n, run) ==
    /\ ~run.panicked
    /\ ApplyRulesReturns(headers, rec, line_n, run)
    /\ CliWrites(line_n, Returned(run))

\* Cli.run, one turn of the loop for a record the reader parsed
CliRecordOk ==
    /\ pc = "records"
    /\ record_n < Len(reader)
    /\ reader[record_n + 1].tag = "Ok"
    /\ CliApplies(reader[record_n + 1].rec, original_line_n(record_n),
                  apply_rules_run(rules, headers, reader[record_n + 1].rec,
                                  original_line_n(record_n)))
    /\ record_n' = record_n + 1
    /\ UNCHANGED <<rules, pc, headers, reader, validation>>

\* Cli.run returns when the reader has no more records
CliDone ==
    /\ pc = "records"
    /\ record_n = Len(reader)
    /\ pc' = "done"
    /\ UNCHANGED <<rules, call, ret, calls, headers, reader, record_n,
                   output_writer, error_writer, validation>>

NextCli == CliOpen \/ CliRecordErr \/ CliRecordOk \/ CliDone

SpecCli == InitCli /\ [][NextCli]_vars

\* ------------------------------------------------------------------------
\* The transformers on their own: a transformer is handed a value, and then
\* the value it returned
\* ------------------------------------------------------------------------
\* the characters of the values handed to Trim and Capitalize: white space,
\* letters of both cases, U+00DF and a full stop
WordChars == {" ", "a", "B", "SZ", "."}

WordValues == UNION {[1..n -> WordChars] : n \in 0..MaxLen}

\* the characters of the values handed to Number
NumberChars == {"0", "1", ":", "AD3", "a"}

NumberValues == UNION {[1..n -> NumberChars] : n \in 0..MaxLen}

ZipBases ==
    {<<"1", "2", "3", "4", "5">>, <<"1", "2", "3", "4">>,
     <<"1", "2", "3", "4", "5", "6">>, <<"1", "2", "AD3", "4", "5">>}

ZipSeparators == {<<>>, <<" ">>, <<"-">>, <<"a", "b">>}

ZipSuffixes == {<<>>, <<"6", "7", "8", "9">>, <<"6", "7", "8">>}

ZipValues ==
    {b \o p \o x : b \in ZipBases, p \in ZipSeparators, x \in ZipSuffixes}

TransformInput(t, v) == [op |-> "input", transformer |-> t, field_value |-> v]

TransformInputs ==
    {TransformInput(t, v) : t \in {Trim, Capitalize}, v \in WordValues}
        \cup {TransformInput(Number, v) : v \in NumberValues}
        \cup {TransformInput(Zipcode, v) : v \in ZipValues}

InitT ==
    /\ rules = without_default_rules
    /\ call \in TransformInputs
    /\ ret = NoRet
    /\ calls = <<>>
    /\ CliIdle

\* a call of Transformer::transform returns transform_result
TransformReturns(t, v, transform_result) ==
    /\ call' = [op |-> "transform", transformer |-> t, field_value |-> v]
    /\ ret' = transform_result
    /\ calls' = Append(calls, [transformer |-> t, field_value |-> v,
                               result |-> transform_result])

\* the transformer is handed the input value
TransformOnce ==
    /\ call.op = "input"
    /\ TransformReturns(call.transformer, call.field_value,
                        transform(call.transformer, call.field_value, Id, 2))
    /\ UNCHANGED <<rules, cliVars>>

\* the transformer is handed the value it returned
TransformAgain ==
    /\ call.op = "transform"
    /\ Len(calls) = 1
    /\ ret.tag = "Ok"
    /\ ret.opt # None
    /\ TransformReturns(call.transformer, ret.opt.v,
                        transform(call.transformer, ret.opt.v, Id, 2))
    /\ UNCHANGED <<rules, cliVars>>

NextT == TransformOnce \/ TransformAgain

SpecT == InitT /\ [][NextT]_vars

\* ------------------------------------------------------------------------
\* Properties of the engine
\* ------------------------------------------------------------------------
AppliedRules == call.op = "apply_rules"

\* the calls of Rule::apply made on field number f, in order
CallsOn(f) == SelectSeq(calls, LAMBDA c : c.field_n = f)

\* the outcome of a call left the field omitted (Excluded or Failed)
Omits(result) == result.tag = "Err" \/ result.opt = None

Min(a, b) == IF a <= b THEN a ELSE b

\* C1: apply_rules applies the rules to each field in descending priority
\* order: of two rules of different priority that are both applied to a
\* field, the one with the higher priority number is applied first.
C1_DescendingPriorityOrder ==
    AppliedRules =>
        \A i, j \in 1..Len(calls) :
            (i < j /\ calls[i].field_n = calls[j].field_n)
                => calls[i].rule.priority >= calls[j].rule.priority

\* C2: once a rule has left a field omitted (it returned Excluded or
\* Failed), no later rule is invoked on that field and the entry of the field
\* in field_values is None.
C2_NoRuleAfterOmitted ==
    AppliedRules =>
        \A i \in 1..Len(calls) :
            Omits(calls[i].result) =>
                /\ \A j \in 1..Len(calls) :
                       calls[j].field_n = calls[i].field_n => j <= i
                /\ ret.field_values[calls[i].field_n + 1] = None

\* C2 witness: a rule omitted a field although further rules follow it
C2_Witness ==
    /\ AppliedRules
    /\ \E i \in 1..Len(calls) :
           /\ Omits(calls[i].result)
           /\ calls[i].rule_n < Len(rules)
           /\ \E j \in 1..Len(calls) : calls[j].result.tag = "Err"

\* C3: a Failed outcome on one field does not abort apply_rules: the error
\* of each failing call is recorded exactly once, the failed field is None,
\* and every field within the header count gets its entry, the one its own
\* rule chain gives when the field is processed alone.
C3_FailureDoesNotAbortRow ==
    AppliedRules =>
        LET hdrs == call.headers
            fields == call.fields
            inRange == Min(Len(fields), Len(hdrs))
        IN  /\ \A i \in 1..Len(calls) :
                   calls[i].result.tag = "Err" =>
                       /\ Cardinality({k \in 1..Len(ret.errors) :
                                          ret.errors[k] = calls[i].result.err}) = 1
                       /\ ret.field_values[calls[i].field_n + 1] = None
            /\ Len(ret.field_values) = inRange
            /\ \A f \in 1..inRange :
                   ret.field_values[f] =
                       apply_rules(rules, <<hdrs[f]>>, <<fields[f]>>,
                                   call.record_n).field_values[1]

\* C3 witness: the first field failed and the second was still transformed
C3_Witness ==
    /\ AppliedRules
    /\ Len(ret.field_values) = 2
    /\ \E i \in 1..Len(calls) : calls[i].field_n = 0 /\ calls[i].result.tag = "Err"
    /\ \E j \in 1..Len(calls) : calls[j].field_n = 1
    /\ ret.field_values[2] # None
    /\ ret.field_values[2] # Some(call.fields[2])

\* C4: each field at a position >= the header count gives exactly one
\* TransformError, with the position as field_name, the raw value as
\* field_value and the count mismatch as reason; no rule is applied to it and
\* it has no entry in field_values.
C4_WideRowErrors ==
    AppliedRules =>
        LET hdrs == call.headers
            fields == call.fields
        IN  /\ \A f \in Len(hdrs)..(Len(fields) - 1) :
                   /\ Cardinality({k \in 1..Len(ret.errors) :
                          ret.errors[k].field_name = usize_to_string(f)}) = 1
                   /\ \E k \in 1..Len(ret.errors) :
                          ret.errors[k] =
                              [record_n |-> call.record_n,
                               field_name |-> <<DigitChar(f)>>,
                               field_value |-> fields[f + 1],
                               reason |-> <<"found ", DigitChar(Len(hdrs)),
                                            " header fields but record had extra field at position ",
                                            DigitChar(f)>>]
                   /\ \A i \in 1..Len(calls) : calls[i].field_n # f
            /\ Len(ret.field_values) <= Len(hdrs)

\* C4 witness: a row with a field beyond the headers was applied
C4_Witness ==
    /\ AppliedRules
    /\ Len(call.fields) > Len(call.headers)
    /\ Len(rules) > 0
    /\ Len(ret.errors) > 0

\* C5: Rule.apply of a Fields rule on a field name outside its set returns
\* Present(value) unchanged and never a failure; a Global rule, or a Fields
\* rule on a name of its set, returns the outcome of its transformer.
C5_RuleApplyApplicability ==
    call.op = "apply" =>
        LET rule == call.rule
            inScope == \/ rule.applicability.tag = "Global"
                       \/ call.field_name \in rule.applicability.field_names
        IN  /\ ~inScope => ret = present(call.field_value)
            /\ inScope => ret = transform(rule.transformer, call.field_value,
                                          call.field_name, call.record_n)

\* C5 witness: a Fields rule whose transformer would fail on the value was
\* applied to a field outside its set
C5_Witness ==
    /\ call.op = "apply"
    /\ call.rule.applicability.tag = "Fields"
    /\ call.field_name \notin call.rule.applicability.field_names
    /\ transform(call.rule.transformer, call.field_value, call.field_name,
                 call.record_n).tag = "Err"
    /\ ret = present(call.field_value)

\* the positions in the heap of the Fields rules that name a field that is
\* not among the headers
Offending(hdrs) ==
    {k \in 1..Len(rules) :
        /\ rules[k].applicability.tag = "Fields"
        /\ ~(rules[k].applicability.field_names \subseteq SeqRange(hdrs))}

\* the field names of the rule at position k that are not among the headers
Unmatched(k, hdrs) == rules[k].applicability.field_names \ SeqRange(hdrs)

\* C8: validate_rules returns Ok exactly when every Fields rule names only
\* headers; otherwise it returns one ValidationError for each offending rule,
\* naming the unmatched field names, and none for any other rule.
C8_ValidateAllRules ==
    call.op = "validate_rules" =>
        LET bad == Offending(call.headers)
        IN  /\ ret.tag = "Ok" <=> bad = {}
            /\ ret.tag = "Err" =>
                   /\ Len(ret.errors) = Cardinality(bad)
                   /\ \A k \in bad :
                          Cardinality({i \in 1..Len(ret.errors) :
                              ret.errors[i].reason = Unmatched(k, call.headers)})
                          = Cardinality({j \in bad :
                                Unmatched(j, call.headers)
                                    = Unmatched(k, call.headers)})

\* C8 witness: two rules name unknown fields and both are reported
C8_Witness ==
    /\ call.op = "validate_rules"
    /\ Cardinality(Offending(call.headers)) >= 2
    /\ \E k \in 1..Len(rules) : rules[k].applicability.tag = "Global"
    /\ ret.tag = "Err"
    /\ Len(ret.errors) = 2

\* ------------------------------------------------------------------------
\* Properties of the default Ruleset
\* ------------------------------------------------------------------------
\* Unicode control characters (Cc) among the characters of the model
ControlChars == {"SOH", "\t", "\n", "\r"}

\* the value consists only of white space and control characters
OnlyBlank(v) == \A i \in 1..Len(v) : v[i] \in WhiteSpace \cup ControlChars

\* C6: with the default rules and the Capitalize and Email rules of the
\* example, a row of valid values surrounded by white space gives the
\* trimmed, capitalized names and the trimmed, lowercased email as Some values
\* and no errors.
C6_DocExampleRows ==
    (AppliedRules /\ call.headers = DocHeaders) =>
        /\ ret.errors = <<>>
        /\ ret.field_values =
               <<Some(trim(call.fields[1])),
                 Some(capitalize(trim(call.fields[2]))),
                 Some(capitalize(trim(call.fields[3]))),
                 Some(str_to_lowercase(trim(call.fields[4])))>>

\* C7: the Ruleset of Ruleset::new() maps a field to None, with no error, if
\* and only if its value is only white space and control characters; every
\* other value comes out as Some of its trimmed value.
C7_DefaultBlankIffWhitespaceOrControl ==
    (AppliedRules /\ rules = new /\ call.headers = <<Id>>) =>
        LET v == call.fields[1]
        IN  /\ ret.errors = <<>>
            /\ ret.field_values[1] = None <=> OnlyBlank(v)
            /\ ~OnlyBlank(v) => ret.field_values[1] = Some(trim(v))

\* ------------------------------------------------------------------------
\* Properties of the row pipeline
\* ------------------------------------------------------------------------
\* C9: when a Fields rule of the ruleset names a field that is not among the
\* headers of the input, the validation errors have been surfaced before the
\* first data row is processed.
C9_ValidatedBeforeFirstRow ==
    (pc \in {"records", "done"} /\ Offending(headers) # {} /\ record_n > 0)
        => validation.tag = "Err"

\* C10: the record number of the k-th record read is k + 1, whatever happened
\* to the records before it; it is the first field of the output row of that
\* record and the record number of every error row written for it.
C10_RecordNumberIsIndexPlusOne ==
    /\ \A i \in 1..Len(output_writer) :
           output_writer[i].of > 0 =>
               output_writer[i].row[1] = usize_to_string(output_writer[i].of + 1)
    /\ \A i \in 1..Len(error_writer) :
           error_writer[i].of > 0 =>
               error_writer[i].row[1] = usize_to_string(error_writer[i].of + 1)

\* C10 witness: the first record failed to parse, the second was written to
\* the output and has an error row of its own
C10_Witness ==
    /\ pc = "done"
    /\ Len(reader) >= 2
    /\ reader[1].tag = "Err"
    /\ \E i \in 1..Len(output_writer) :
           output_writer[i].of = 2 /\ output_writer[i].row[1] = <<"3">>
    /\ \E i \in 1..Len(error_writer) :
           /\ error_writer[i].of = 2
           /\ error_writer[i].row[1] = <<"3">>
           /\ error_writer[i].row[2] # <<>>

\* the rows of a writer that were written for input record number k
RowsOf(writer, k) == SelectSeq(writer, LAMBDA w : w.of = k)

RecordErrors(k) ==
    IF reader[k].tag = "Err"
    THEN <<TransformError(k + 1, <<>>, <<>>, reader[k].e)>>
    ELSE apply_rules(rules, headers, reader[k].rec, k + 1).errors

\* the error rows of the records 1..k, in input order
RECURSIVE ExpectedErrorRows(_)
ExpectedErrorRows(k) ==
    IF k = 0 THEN <<>>
    ELSE ExpectedErrorRows(k - 1) \o
             [i \in 1..Len(RecordErrors(k)) |->
                 Written(k, encode_error(RecordErrors(k)[i]))]

C13_OneEntryPerHeader ==
    AppliedRules => Len(ret.field_values) = Len(call.headers)

\* C14: the TransformError recorded for a failing rule carries the value the
\* field had in the input row, also when earlier rules of the chain changed
\* the value before the failing rule ran.
C14_ErrorCarriesOriginalValue ==
    AppliedRules =>
        \A i \in 1..Len(calls) :
            calls[i].result.tag = "Err" =>
                calls[i].result.err.field_value = call.fields[calls[i].field_n + 1]

\* C18: a call of apply_rules or validate_rules leaves the rules and their
\* order unchanged, and what apply_rules returns is determined by the rules,
\* the headers, the fields and the row number alone, whatever was called
\* before.
C18_RowsLeaveRulesetUnchanged ==
    [][(call.op = "none" /\ call'.op \in {"apply_rules", "validate_rules"}) =>
           /\ rules' = rules
           /\ call'.op = "apply_rules" =>
                  ret' = apply_rules(rules, call'.headers, call'.fields,
                                     call'.record_n)
           /\ call'.op = "validate_rules" =>
                  ret' = validate_rules(rules, call'.headers)]_vars

\* C18 witness: apply_rules returned a record with an omitted field, an
\* error and a transformed field, and the Ruleset still holds all its rules
C18_Witness ==
    /\ AppliedRules
    /\ Len(rules) = MaxRules
    /\ Len(ret.errors) = 1
    /\ Len(ret.field_values) = 2
    /\ ret.field_values[1] = None
    /\ ret.field_values[2] # None

\* C19: in the order in which apply_rules visits the rules, all rules of
\* equal priority are adjacent.
C19_EqualPrioritiesAdjacent ==
    \A i, j, k \in 1..Len(iter(rules)) :
        (i < j /\ j < k /\ iter(rules)[i].priority = iter(rules)[k].priority)
            => iter(rules)[j].priority = iter(rules)[i].priority

\* C20: apply_rules returns (the positional insert never goes out of
\* bounds), field_values has min(fields, headers) entries and entry i is
\* the result for input field i, no entry having been shifted.
C20_InsertKeepsPositions ==
    AppliedRules =>
        /\ "field_values" \in DOMAIN ret
        /\ Len(ret.field_values) = Min(Len(call.fields), Len(call.headers))
        /\ \A f \in 1..Len(ret.field_values) :
               ret.field_values[f] =
                   rule_loop(iter(rules), 1, call.headers[f], call.record_n,
                             f - 1,
                             [transformed_field_value |-> Some(call.fields[f]),
                              errors |-> <<>>, calls |-> <<>>]
                            ).transformed_field_value

\* C20 witness: a row of two fields within the headers whose results differ,
\* the first omitted and the second kept
C20_Witness ==
    /\ AppliedRules
    /\ Len(call.fields) = 2
    /\ Len(call.headers) = 2
    /\ ret.field_values[1] = None
    /\ ret.field_values[2] = Some(call.fields[2])
    /\ call.fields[1] # call.fields[2]

\* ------------------------------------------------------------------------
\* Properties of the transformers
\* ------------------------------------------------------------------------
Transformed(t) == call.op = "transform" /\ call.transformer = t

\* C15: Trim and Capitalize never fail and are idempotent: handed the value
\* it returned, each returns the same Present value again.
C15_TrimCapitalizeIdempotent ==
    (Transformed(Trim) \/ Transformed(Capitalize)) =>
        /\ ret.tag = "Ok"
        /\ ret.opt # None
        /\ Len(calls) = 2 => calls[2].result = calls[1].result

\* the value is decimal digits only
AllDigits(v) == \A i \in 1..Len(v) : v[i] \in AsciiDigits

\* the value is digits only, of any script
AllNumeric(v) == \A i \in 1..Len(v) : v[i] \in UnicodeDigits

\* five digits, a run of non-digits (which may be empty), then exactly four
\* digits
FivePlusFour(v) ==
    /\ Len(v) >= 9
    /\ AllNumeric(SubSeq(v, 1, 5))
    /\ AllNumeric(SubSeq(v, Len(v) - 3, Len(v)))
    /\ \A i \in 6..(Len(v) - 4) : v[i] \notin UnicodeDigits

\* C16: Zipcode succeeds exactly on five digits optionally followed by a
\* run of non-digits and exactly four digits, giving DDDDD or DDDDD-DDDD, and
\* fails with the reason "not a valid zipcode" on every other value.
C16_ZipcodeFiveOrFivePlusFour ==
    Transformed(Zipcode) =>
        LET v == call.field_value
        IN  ret = IF Len(v) = 5 /\ AllNumeric(v) THEN present(v)
                  ELSE IF FivePlusFour(v)
                  THEN present(SubSeq(v, 1, 5) \o <<"-">>
                                   \o SubSeq(v, Len(v) - 3, Len(v)))
                  ELSE error(v, Id, 2, "not a valid zipcode")

\* C17: Number returns Present(value) unchanged exactly when the value is
\* "0" or decimal digits the first of which is not 0, and Failed otherwise.
C17_NumberExactlyIntegers ==
    Transformed(Number) =>
        LET v == call.field_value
        IN  IF v = <<"0">> \/ (v # <<>> /\ AllDigits(v) /\ v[1] # "0")
            THEN ret = present(v)
            ELSE ret.tag = "Err"

\* the fields within the header count on which a call of Rule::apply failed
FailedFields == {calls[i].field_n : i \in {j \in 1..Len(calls) : calls[j].result.tag = "Err"}}

\* the rules of the Ruleset that fail on the input value of field number f
WouldFail(f) ==
    {k \in 1..Len(rules) :
        apply(rules[k], call.fields[f + 1], call.headers[f + 1],
              call.record_n).tag = "Err"}

\* C21: in one call of apply_rules each field within the header count gives
\* at most one TransformError however many rules would fail on it, a field
\* that gave an error is None in field_values, and the number of errors is
\* the number of failed fields plus the number of fields beyond the headers.
C21_OneErrorPerField ==
    AppliedRules =>
        /\ \A f \in FailedFields :
               /\ Cardinality({i \in 1..Len(calls) :
                      calls[i].field_n = f /\ calls[i].result.tag = "Err"}) = 1
               /\ Cardinality({k \in 1..Len(ret.errors) :
                      ret.errors[k].field_name = call.headers[f + 1]}) = 1
               /\ ret.field_values[f + 1] = None
        /\ Len(ret.errors) =
               Cardinality(FailedFields)
                   + (IF Len(call.fields) > Len(call.headers)
                      THEN Len(call.fields) - Len(call.headers) ELSE 0)

\* C21 witness: two rules of the Ruleset fail on the first field, which gave
\* one error; the row also has a field beyond the headers
C21_Witness ==
    /\ AppliedRules
    /\ Len(call.headers) = 1
    /\ Len(call.fields) = 2
    /\ Cardinality(WouldFail(0)) >= 2
    /\ FailedFields = {0}
    /\ Len(ret.errors) = 2
    /\ ret.field_values = <<None>>

====
